---- MODULE Spec2Model ----
\* A model of hw2_signer/signer.go: ExecutePipeline and the stages SingleHash,
\* MultiHash and CombineResults, with goroutines, unbuffered channels, wait
\* groups and the syncMd5 mutex.
\*
\* Strings are sequences of byte codes, so that sort.Strings' byte order and
\* concatenation are computed, not assumed.  An interface{} value is a record
\* [t, i, s]: its dynamic type and its int or string payload.

EXTENDS Integers, Sequences, FiniteSets, TLC

VARIABLES
    jobs,       \* the job kinds ExecutePipeline was called with
    items,      \* the batch the first (generator) job feeds, in feeding order
    stub,       \* which pair of hash providers is linked in
    mainPc,     \* position of ExecutePipeline
    started,    \* how many jobs ExecutePipeline has started (its loop index)
    wgMain,     \* counter of ExecutePipeline's wait group
    stPc,       \* position of each job.do goroutine
    stWg,       \* counter of each stage's wait group
    jobIn,      \* jobIn[s]: the channel job s was started with as `in`
    jobOut,     \* jobOut[s]: the channel job s was started with as `out`
    closed,     \* closed[c]: channel c has been closed
    genIdx,     \* next item the generator sends
    tasks,      \* tasks[s]: the per-item goroutines of stage s, in start order
    mx,         \* syncMd5: <<>> when unlocked, else the holding task <<s, k>>
    hashes,     \* hashes[s]: the slice CombineResults has collected
    res,        \* res[s]: the string CombineResults has built
    sunk,       \* what the collecting last job has received
    panicked    \* a goroutine panicked: the process is gone

\* hw7_microservice/service.go, the adminServer: a separate program.
VARIABLES
    asLock,     \* adminServer's mutex: 0 when free, else the log call holding it
    subs,       \* the keys of as.subs; the channel of a subscription is named by its id
    nextID,     \* as.nextID
    subClosed,  \* the ids whose channel has been closed
    hKind,      \* which handler each subscriber runs: "Logging" or "Statistics"
    hPc,        \* position of each handler
    hId,        \* the id newSub returned to the handler
    hGot,       \* the events of log the handler has received, in order
    hStat,      \* Statistics: events counted since the last Stat sent
    lPc,        \* position of each call of log
    lTodo,      \* the subscriptions the loop of log has yet to send to
    lSubs,      \* as.subs as the call of log found it when it got the lock
    lockOrder,  \* the calls of log in the order they got the lock
    stopPc,     \* position of the call of stop
    asPanicked  \* a goroutine of the server panicked

signerVars == <<jobs, items, stub, mainPc, started, wgMain, stPc, stWg, jobIn,
                jobOut, closed, genIdx, tasks, mx, hashes, res, sunk, panicked>>

adminVars == <<asLock, subs, nextID, subClosed, hKind, hPc, hId, hGot, hStat,
               lPc, lTodo, lSubs, lockOrder, stopPc, asPanicked>>

vars == <<signerVars, adminVars>>

----------------------------------------------------------------------------
\* Bounds of the model.

MaxItems == 2

\* hw7: the number of subscribers, of calls of log, and the most events a
\* Statistics handler counts between two Stats.
MaxHandlers == 2
MaxLoggers == 2
MaxStat == 3

----------------------------------------------------------------------------
\* Values and strings.

IntVal(i) == [t |-> "int", i |-> i, s |-> <<>>]
StrVal(s) == [t |-> "string", i |-> 0, s |-> s]

Tilde == 126
Underscore == 95

RECURSIVE Digits(_)
Digits(i) == IF i < 10 THEN <<48 + i>> ELSE Digits(i \div 10) \o <<48 + (i % 10)>>

\* strconv.Itoa
Itoa(i) == IF i < 0 THEN <<45>> \o Digits(-i) ELSE Digits(i)

\* The hash providers.  "identity" is the pair of stubs FastHash(s) = s,
\* SlowHash(s) = s; "tagged" wraps its argument, so that every call leaves a
\* trace in the result: c(...) for crc32, m(...) for md5.
DataSignerCrc32(data) ==
    IF stub = "identity" THEN data ELSE <<99, 40>> \o data \o <<41>>

DataSignerMd5(data) ==
    IF stub = "identity" THEN data ELSE <<109, 40>> \o data \o <<41>>

\* Byte-wise lexicographic order, the order of Go's < on strings: the first
\* byte in which the two differ decides, and a proper prefix comes first.
Differ(a, b) ==
    {j \in 1..(IF Len(a) < Len(b) THEN Len(a) ELSE Len(b)) : a[j] # b[j]}

StrLess(a, b) ==
    IF Differ(a, b) = {} THEN Len(a) < Len(b)
    ELSE LET j == CHOOSE x \in Differ(a, b) : \A y \in Differ(a, b) : x <= y
         IN  a[j] < b[j]

RECURSIVE Insert(_, _)
Insert(x, sorted) ==
    IF sorted = <<>> THEN <<x>>
    ELSE IF StrLess(sorted[1], x) THEN <<sorted[1]>> \o Insert(x, Tail(sorted))
    ELSE <<x>> \o sorted

RECURSIVE InsertionSort(_)
InsertionSort(ss) ==
    IF ss = <<>> THEN <<>> ELSE Insert(Head(ss), InsertionSort(Tail(ss)))

\* sort.Strings
SortStringsUnsorted(ss) == ss
SortStrings(ss) == InsertionSort(ss)

\* The loop of CombineResults that joins the sorted slice with "_".
RECURSIVE JoinPrefix(_, _)
JoinPrefix(ss, i) ==
    IF i >= Len(ss) THEN <<>>
    ELSE ss[i] \o <<Underscore>> \o JoinPrefix(ss, i + 1)

JoinResultsTrailing(ss) == JoinPrefix(ss, 1) \o ss[Len(ss)] \o <<Underscore>>
JoinResults(ss) == JoinPrefix(ss, 1) \o ss[Len(ss)]

----------------------------------------------------------------------------
\* Inputs.

Kinds == {"gen", "SingleHash", "MultiHash", "CombineResults", "sink"}
Ranging == {"SingleHash", "MultiHash", "CombineResults", "sink"}
PerItem == {"SingleHash", "MultiHash"}

Standard == <<"gen", "SingleHash", "MultiHash", "CombineResults">>

\* The same pipeline followed by a job that only collects what it receives.
Collected == Standard \o <<"sink">>

JobLists == {Standard, Collected}

\* Further calls: no job at all, and pipelines whose first ranging job is
\* MultiHash or CombineResults, so that it is this job that meets the batch.
NoJobs == <<>>
MultiFirst == <<"gen", "MultiHash", "CombineResults", "sink">>
CombineFirst == <<"gen", "CombineResults", "sink">>

\* SingleHash as the first job, with no generator before it.
SingleFirst == <<"SingleHash", "MultiHash", "CombineResults", "sink">>

AnyJobLists == JobLists \cup {NoJobs, MultiFirst, CombineFirst, SingleFirst}

\* Two ints, one of them negative and of two digits, and a string, which
\* SingleHash cannot convert.
ItemValues == {IntVal(0), IntVal(-12), StrVal(<<120>>)}

Batches == UNION {[1..len -> ItemValues] : len \in 0..MaxItems}

Stubs == {"identity", "tagged"}

Stages == 1..Len(jobs)

n == 6

----------------------------------------------------------------------------
\* Per-item goroutines.

NewTask(v) ==
    [data |-> v, pc |-> "start", wg |-> 0, run |-> {}, cell |-> <<>>,
     md5 |-> <<>>, res |-> <<>>]

EmptyCells(count) == [i \in 1..count |-> <<>>]

\* The argument asyncCrc32 was called with for sub-task i of task t of a stage
\* of kind kind.
CrcArg(kind, t, i) ==
    IF kind = "SingleHash"
    THEN (IF i = 1 THEN Itoa(t.data.i) ELSE t.md5)
    ELSE Itoa(i - 1) \o t.data.s

RECURSIVE Concat(_, _)
Concat(cells, i) ==
    IF i > Len(cells) THEN <<>> ELSE cells[i] \o Concat(cells, i + 1)

IsTask(s, k) == s \in Stages /\ k \in 1..Len(tasks[s])

----------------------------------------------------------------------------
\* Initial state: ExecutePipeline(jobs...) has just been called.

\* No job is started, no channel made (0 stands for the nil channel).
Called ==
    /\ mainPc = "start"
    /\ started = 0
    /\ wgMain = 0
    /\ stPc = [s \in 1..Len(jobs) |-> "idle"]
    /\ stWg = [s \in 1..Len(jobs) |-> 0]
    /\ jobIn = [s \in 1..Len(jobs) |-> 0]
    /\ jobOut = [s \in 1..Len(jobs) |-> 0]
    /\ closed = [c \in 1..Len(jobs) |-> FALSE]
    /\ genIdx = 1
    /\ tasks = [s \in 1..Len(jobs) |-> <<>>]
    /\ mx = <<>>
    /\ hashes = [s \in 1..Len(jobs) |-> <<>>]
    /\ res = [s \in 1..Len(jobs) |-> <<>>]
    /\ sunk = <<>>
    /\ panicked = FALSE

\* hw7, newAdminServer (lines 202-207): no subscription, nextID 0, and no
\* handler, log or stop called yet.
Handlers == 1..MaxHandlers
Loggers == 1..MaxLoggers
HandlerKinds == {"Logging", "Statistics"}

NewAdminServer ==
    /\ asLock = 0
    /\ subs = {}
    /\ nextID = 0
    /\ subClosed = {}
    /\ hPc = [h \in Handlers |-> "idle"]
    /\ hId = [h \in Handlers |-> -1]
    /\ hGot = [h \in Handlers |-> <<>>]
    /\ hStat = [h \in Handlers |-> 0]
    /\ lPc = [l \in Loggers |-> "idle"]
    /\ lTodo = [l \in Loggers |-> {}]
    /\ lSubs = [l \in Loggers |-> {}]
    /\ lockOrder = <<>>
    /\ stopPc = "idle"
    /\ asPanicked = FALSE

\* The admin server is no part of a run of the signer.
NoAdmin == hKind = [h \in Handlers |-> "Logging"] /\ NewAdminServer

Init ==
    /\ jobs \in JobLists
    /\ items \in Batches
    /\ stub \in Stubs
    \* the longest batches run with the tagged providers and a collecting job
    /\ Len(items) = MaxItems => (stub = "tagged" /\ jobs = Collected)
    /\ Called
    /\ NoAdmin

\* The same with any of the job lists.
AnyJobsInit ==
    /\ jobs \in AnyJobLists
    /\ items \in Batches
    /\ stub \in Stubs
    /\ Len(items) = MaxItems => (stub = "tagged" /\ jobs = Collected)
    /\ Called
    /\ NoAdmin

----------------------------------------------------------------------------
\* ExecutePipeline and job.do.

\* The channels ExecutePipeline makes are numbered in the order of the calls
\* of make: line 28 makes channel 1, the pass of the loop for jobs[i] (line 38)
\* makes channel i + 1.  Job 1 is started with in = nil (line 28); the loop
\* sets in = out (line 37) before it makes the next out.
NewOutShared(s) == 1
NewOut(s) == s

PassedInNil(s) == 0
PassedIn(s) == IF s = 1 THEN 0 ELSE NewOut(s - 1)

\* Lines 28-40: wg.Add(n), go jobs[0].do(nil, out, wg), and the loop that
\* makes one more channel per job and starts it: go jobs[i].do(in, out, wg).
\* jobs[0] of an empty list is an index out of range.
ExecuteStart ==
    /\ ~panicked
    /\ mainPc = "start"
    /\ IF Len(jobs) = 0
       THEN /\ panicked' = TRUE
            /\ UNCHANGED <<mainPc, started, wgMain, stPc, jobIn, jobOut>>
       ELSE /\ wgMain' = Len(jobs)
            /\ started' = Len(jobs)
            /\ stPc' = [s \in 1..Len(jobs) |-> "run"]
            /\ jobIn' = [s \in 1..Len(jobs) |-> PassedIn(s)]
            /\ jobOut' = [s \in 1..Len(jobs) |-> NewOut(s)]
            /\ mainPc' = "wait"
            /\ UNCHANGED panicked
    /\ UNCHANGED <<adminVars, jobs, items, stub, stWg, closed, genIdx, tasks, mx, hashes,
                   res, sunk>>

\* Line 41: wg.Wait() returns, and ExecutePipeline with it.
ExecuteWaitNoWait ==
    /\ ~panicked
    /\ mainPc = "wait"
    /\ mainPc' = "done"
    /\ UNCHANGED <<adminVars, jobs, items, stub, jobIn, jobOut, started, wgMain, stPc, stWg, closed,
                   genIdx, tasks, mx, hashes, res, sunk, panicked>>

ExecuteWait ==
    /\ ~panicked
    /\ mainPc = "wait"
    /\ wgMain = 0
    /\ mainPc' = "done"
    /\ UNCHANGED <<adminVars, jobs, items, stub, jobIn, jobOut, started, wgMain, stPc, stWg, closed,
                   genIdx, tasks, mx, hashes, res, sunk, panicked>>

\* Channels are unbuffered: a send completes only together with a receive.
\* The sends of job r blocked on its out: k = 0 is the job function itself
\* (the generator, or CombineResults at line 146), k > 0 its per-item
\* goroutine k (asyncSingleHash 72, asyncMultiHash 120).
SendsAfterInput(r) ==
    (IF jobs[r] = "gen" /\ stPc[r] = "run" /\ genIdx <= Len(items)
     THEN {[r |-> r, k |-> 0, v |-> items[genIdx]]} ELSE {})
    \cup
    (IF jobs[r] = "CombineResults" /\ stPc[r] = "send"
     THEN {[r |-> r, k |-> 0, v |-> StrVal(res[r])]} ELSE {})
    \cup
    {[r |-> r, k |-> k, v |-> StrVal(tasks[r][k].res)] :
        k \in {j \in 1..Len(tasks[r]) :
                   tasks[r][j].pc = "send" /\ stPc[r] # "run"}}

Sends(r) ==
    (IF jobs[r] = "gen" /\ stPc[r] = "run" /\ genIdx <= Len(items)
     THEN {[r |-> r, k |-> 0, v |-> items[genIdx]]} ELSE {})
    \cup
    (IF jobs[r] = "CombineResults" /\ stPc[r] = "send"
     THEN {[r |-> r, k |-> 0, v |-> StrVal(res[r])]} ELSE {})
    \cup
    {[r |-> r, k |-> k, v |-> StrVal(tasks[r][k].res)] :
        k \in {j \in 1..Len(tasks[r]) : tasks[r][j].pc = "send"}}

\* The sends blocked on channel c.
Offers(c) == UNION {Sends(r) : r \in {q \in Stages : jobOut[q] = c}}

\* Lines 23-24: close(out) once the job function has returned, then
\* wg.Done().  Closing a closed channel panics, and so does a goroutine
\* blocked in a send on the channel that is closed.
JobCloseBeforeReturn(s) ==
    /\ ~panicked
    /\ s \in Stages
    /\ stPc[s] \in {"wait", "returned"}
    /\ closed' = [closed EXCEPT ![jobOut[s]] = TRUE]
    /\ IF closed[jobOut[s]] \/ Offers(jobOut[s]) # {}
       THEN panicked' = TRUE /\ UNCHANGED <<stPc, wgMain>>
       ELSE /\ stPc' = [stPc EXCEPT ![s] = "done"]
            /\ wgMain' = wgMain - 1
            /\ UNCHANGED panicked
    /\ UNCHANGED <<adminVars, jobs, items, stub, jobIn, jobOut, mainPc, started, stWg,
                   genIdx, tasks, mx, hashes, res, sunk>>

JobClose(s) ==
    /\ ~panicked
    /\ s \in Stages
    /\ stPc[s] = "returned"
    /\ closed' = [closed EXCEPT ![jobOut[s]] = TRUE]
    /\ IF closed[jobOut[s]] \/ Offers(jobOut[s]) # {}
       THEN panicked' = TRUE /\ UNCHANGED <<stPc, wgMain>>
       ELSE /\ stPc' = [stPc EXCEPT ![s] = "done"]
            /\ wgMain' = wgMain - 1
            /\ UNCHANGED panicked
    /\ UNCHANGED <<adminVars, jobs, items, stub, jobIn, jobOut, mainPc, started, stWg,
                   genIdx, tasks, mx, hashes, res, sunk>>

----------------------------------------------------------------------------
\* The generator job: sends the batch on its output, then returns.

GenReturn ==
    /\ ~panicked
    /\ \E s \in Stages :
        /\ jobs[s] = "gen"
        /\ stPc[s] = "run"
        /\ genIdx > Len(items)
        /\ stPc' = [stPc EXCEPT ![s] = "returned"]
    /\ UNCHANGED <<adminVars, jobs, items, stub, jobIn, jobOut, mainPc, started, wgMain, stWg, closed,
                   genIdx, tasks, mx, hashes, res, sunk, panicked>>

----------------------------------------------------------------------------
\* The loop `for data := range in` of SingleHash, MultiHash, CombineResults
\* and the collecting job.

\* One rendezvous on the channel job s ranges over: a blocked send completes
\* and the loop takes the value.  A receive from the nil channel blocks for
\* ever.  A per-item goroutine whose send completes returns from
\* asyncSingleHash or asyncMultiHash and calls wg.Done() (SingleHash 54,
\* MultiHash 96).
RecvAfterTasks(s) ==
    /\ ~panicked
    /\ s \in Stages
    /\ jobs[s] \in Ranging
    /\ stPc[s] = "run"
    /\ jobIn[s] # 0
    /\ stWg[s] = 0
    /\ \E o \in Offers(jobIn[s]) :
        LET sent == IF o.k = 0 THEN tasks
                    ELSE [tasks EXCEPT ![o.r][o.k].pc = "done"]
            wgSent == IF o.k = 0 THEN stWg
                      ELSE [stWg EXCEPT ![o.r] = @ - 1]
            pcSent == IF o.k = 0 /\ jobs[o.r] = "CombineResults"
                      THEN [stPc EXCEPT ![o.r] = "returned"] ELSE stPc
        IN  /\ genIdx' = IF o.k = 0 /\ jobs[o.r] = "gen"
                         THEN genIdx + 1 ELSE genIdx
            /\ stPc' = pcSent
            /\ IF jobs[s] \in PerItem
               THEN \* SingleHash 50-55, MultiHash 92-97: wg.Add(1); go func
                    /\ tasks' = [sent EXCEPT ![s] = Append(@, NewTask(o.v))]
                    /\ stWg' = [wgSent EXCEPT ![s] = @ + 1]
                    /\ UNCHANGED <<hashes, sunk, panicked>>
               ELSE IF jobs[s] = "CombineResults"
               THEN \* CombineResults 129-133
                    /\ tasks' = sent
                    /\ stWg' = wgSent
                    /\ IF o.v.t = "string"
                       THEN hashes' = [hashes EXCEPT ![s] = Append(@, o.v.s)]
                            /\ UNCHANGED panicked
                       ELSE panicked' = TRUE /\ UNCHANGED hashes
                    /\ UNCHANGED sunk
               ELSE /\ tasks' = sent
                    /\ stWg' = wgSent
                    /\ sunk' = Append(sunk, o.v)
                    /\ UNCHANGED <<hashes, panicked>>
    /\ UNCHANGED <<adminVars, jobs, items, stub, jobIn, jobOut, mainPc, started, wgMain,
                   closed, mx, res>>

Recv(s) ==
    /\ ~panicked
    /\ s \in Stages
    /\ jobs[s] \in Ranging
    /\ stPc[s] = "run"
    /\ jobIn[s] # 0
    /\ \E o \in Offers(jobIn[s]) :
        LET sent == IF o.k = 0 THEN tasks
                    ELSE [tasks EXCEPT ![o.r][o.k].pc = "done"]
            wgSent == IF o.k = 0 THEN stWg
                      ELSE [stWg EXCEPT ![o.r] = @ - 1]
            pcSent == IF o.k = 0 /\ jobs[o.r] = "CombineResults"
                      THEN [stPc EXCEPT ![o.r] = "returned"] ELSE stPc
        IN  /\ genIdx' = IF o.k = 0 /\ jobs[o.r] = "gen"
                         THEN genIdx + 1 ELSE genIdx
            /\ stPc' = pcSent
            /\ IF jobs[s] \in PerItem
               THEN \* SingleHash 50-55, MultiHash 92-97: wg.Add(1); go func
                    /\ tasks' = [sent EXCEPT ![s] = Append(@, NewTask(o.v))]
                    /\ stWg' = [wgSent EXCEPT ![s] = @ + 1]
                    /\ UNCHANGED <<hashes, sunk, panicked>>
               ELSE IF jobs[s] = "CombineResults"
               THEN \* CombineResults 129-133
                    /\ tasks' = sent
                    /\ stWg' = wgSent
                    /\ IF o.v.t = "string"
                       THEN hashes' = [hashes EXCEPT ![s] = Append(@, o.v.s)]
                            /\ UNCHANGED panicked
                       ELSE panicked' = TRUE /\ UNCHANGED hashes
                    /\ UNCHANGED sunk
               ELSE /\ tasks' = sent
                    /\ stWg' = wgSent
                    /\ sunk' = Append(sunk, o.v)
                    /\ UNCHANGED <<hashes, panicked>>
    /\ UNCHANGED <<adminVars, jobs, items, stub, jobIn, jobOut, mainPc, started, wgMain,
                   closed, mx, res>>

\* `range in` ends when the input channel is closed (and, being unbuffered,
\* empty).  The input of the first job is nil: its range never ends.
InputExhaustedEarly(s) == jobIn[s] # 0
InputExhausted(s) == jobIn[s] # 0 /\ closed[jobIn[s]]

\* CombineResults 135-146, up to the send: nothing is built from an empty
\* slice; otherwise sort, join, and block in `out <- res.String()`.
CombineTailEmitEmpty(s) ==
    /\ res' = [res EXCEPT ![s] =
                  IF Len(hashes[s]) = 0 THEN <<>>
                  ELSE JoinResults(SortStrings(hashes[s]))]
    /\ stPc' = [stPc EXCEPT ![s] = "send"]

CombineTail(s) ==
    IF Len(hashes[s]) = 0
    THEN stPc' = [stPc EXCEPT ![s] = "returned"] /\ UNCHANGED res
    ELSE /\ res' = [res EXCEPT ![s] = JoinResults(SortStrings(hashes[s]))]
         /\ stPc' = [stPc EXCEPT ![s] = "send"]

RangeEnd(s) ==
    /\ ~panicked
    /\ s \in Stages
    /\ jobs[s] \in Ranging
    /\ stPc[s] = "run"
    /\ InputExhausted(s)
    /\ IF jobs[s] \in PerItem
       THEN stPc' = [stPc EXCEPT ![s] = "wait"] /\ UNCHANGED res
       ELSE IF jobs[s] = "CombineResults"
       THEN CombineTail(s)
       ELSE stPc' = [stPc EXCEPT ![s] = "returned"] /\ UNCHANGED res
    /\ UNCHANGED <<adminVars, jobs, items, stub, jobIn, jobOut, mainPc, started, wgMain, stWg, closed,
                   genIdx, tasks, mx, hashes, sunk, panicked>>

\* SingleHash 57, MultiHash 99: wg.Wait() returns and the job function with it.
StageWaitNoWait(s) ==
    /\ ~panicked
    /\ s \in Stages
    /\ stPc[s] = "wait"
    /\ stPc' = [stPc EXCEPT ![s] = "returned"]
    /\ UNCHANGED <<adminVars, jobs, items, stub, jobIn, jobOut, mainPc, started, wgMain, stWg, closed,
                   genIdx, tasks, mx, hashes, res, sunk, panicked>>

StageWait(s) ==
    /\ ~panicked
    /\ s \in Stages
    /\ stPc[s] = "wait"
    /\ stWg[s] = 0
    /\ stPc' = [stPc EXCEPT ![s] = "returned"]
    /\ UNCHANGED <<adminVars, jobs, items, stub, jobIn, jobOut, mainPc, started, wgMain, stWg, closed,
                   genIdx, tasks, mx, hashes, res, sunk, panicked>>

----------------------------------------------------------------------------
\* asyncSingleHash, one goroutine per item of SingleHash.

\* Lines 61-68: the type assertion, Itoa, wg.Add(2), and the first asyncCrc32,
\* which starts the goroutine computing crc32(dataStr).
SingleStartUnchecked(s, k) ==
    /\ ~panicked
    /\ IsTask(s, k)
    /\ jobs[s] = "SingleHash"
    /\ tasks[s][k].pc = "start"
    /\ tasks' = [tasks EXCEPT ![s][k].pc = "lock",
                              ![s][k].wg = 2,
                              ![s][k].cell = EmptyCells(2),
                              ![s][k].run = {1}]
    /\ UNCHANGED <<adminVars, jobs, items, stub, jobIn, jobOut, mainPc, started, wgMain, stPc, stWg,
                   closed, genIdx, mx, hashes, res, sunk, panicked>>

SingleStartSequential(s, k) ==
    /\ ~panicked
    /\ IsTask(s, k)
    /\ jobs[s] = "SingleHash"
    /\ tasks[s][k].pc = "start"
    /\ IF tasks[s][k].data.t = "int"
       THEN /\ tasks' = [tasks EXCEPT ![s][k].pc = "lock",
                                      ![s][k].wg = 2,
                                      ![s][k].cell = EmptyCells(2)]
            /\ UNCHANGED panicked
       ELSE panicked' = TRUE /\ UNCHANGED tasks
    /\ UNCHANGED <<adminVars, jobs, items, stub, jobIn, jobOut, mainPc, started, wgMain, stPc, stWg,
                   closed, genIdx, mx, hashes, res, sunk>>

SingleStartGoroutineDies(s, k) ==
    /\ ~panicked
    /\ IsTask(s, k)
    /\ jobs[s] = "SingleHash"
    /\ tasks[s][k].pc = "start"
    /\ IF tasks[s][k].data.t = "int"
       THEN tasks' = [tasks EXCEPT ![s][k].pc = "lock",
                                   ![s][k].wg = 2,
                                   ![s][k].cell = EmptyCells(2),
                                   ![s][k].run = {1}]
       ELSE tasks' = [tasks EXCEPT ![s][k].pc = "dead"]
    /\ UNCHANGED <<adminVars, jobs, items, stub, jobIn, jobOut, mainPc, started, wgMain, stPc, stWg,
                   closed, genIdx, mx, hashes, res, sunk, panicked>>

SingleStart(s, k) ==
    /\ ~panicked
    /\ IsTask(s, k)
    /\ jobs[s] = "SingleHash"
    /\ tasks[s][k].pc = "start"
    /\ IF tasks[s][k].data.t = "int"
       THEN /\ tasks' = [tasks EXCEPT ![s][k].pc = "lock",
                                      ![s][k].wg = 2,
                                      ![s][k].cell = EmptyCells(2),
                                      ![s][k].run = {1}]
            /\ UNCHANGED panicked
       ELSE panicked' = TRUE /\ UNCHANGED tasks
    /\ UNCHANGED <<adminVars, jobs, items, stub, jobIn, jobOut, mainPc, started, wgMain, stPc, stWg,
                   closed, genIdx, mx, hashes, res, sunk>>

\* syncMd5.sign, line 14: Lock().
SignLockUnguarded(s, k) ==
    /\ ~panicked
    /\ IsTask(s, k)
    /\ jobs[s] = "SingleHash"
    /\ tasks[s][k].pc = "lock"
    /\ mx' = <<s, k>>
    /\ tasks' = [tasks EXCEPT ![s][k].pc = "md5"]
    /\ UNCHANGED <<adminVars, jobs, items, stub, jobIn, jobOut, mainPc, started, wgMain, stPc, stWg,
                   closed, genIdx, hashes, res, sunk, panicked>>

SignLock(s, k) ==
    /\ ~panicked
    /\ IsTask(s, k)
    /\ jobs[s] = "SingleHash"
    /\ tasks[s][k].pc = "lock"
    /\ mx = <<>>
    /\ mx' = <<s, k>>
    /\ tasks' = [tasks EXCEPT ![s][k].pc = "md5"]
    /\ UNCHANGED <<adminVars, jobs, items, stub, jobIn, jobOut, mainPc, started, wgMain, stPc, stWg,
                   closed, genIdx, hashes, res, sunk, panicked>>

\* syncMd5.sign, lines 15-16: the call DataSignerMd5(data) returns and the
\* deferred Unlock() runs.
SignReturnKeepLocked(s, k) ==
    /\ ~panicked
    /\ IsTask(s, k)
    /\ tasks[s][k].pc = "md5"
    /\ tasks' = [tasks EXCEPT ![s][k].pc = "crc2",
                              ![s][k].md5 = DataSignerMd5(Itoa(tasks[s][k].data.i))]
    /\ UNCHANGED <<adminVars, jobs, items, stub, jobIn, jobOut, mainPc, started, wgMain, stPc, stWg,
                   closed, genIdx, mx, hashes, res, sunk, panicked>>

SignReturn(s, k) ==
    /\ ~panicked
    /\ IsTask(s, k)
    /\ tasks[s][k].pc = "md5"
    /\ mx' = <<>>
    /\ tasks' = [tasks EXCEPT ![s][k].pc = "crc2",
                              ![s][k].md5 = DataSignerMd5(Itoa(tasks[s][k].data.i))]
    /\ UNCHANGED <<adminVars, jobs, items, stub, jobIn, jobOut, mainPc, started, wgMain, stPc, stWg,
                   closed, genIdx, hashes, res, sunk, panicked>>

\* Line 69: the second asyncCrc32, on the value sign returned.
SingleCrc2(s, k) ==
    /\ ~panicked
    /\ IsTask(s, k)
    /\ tasks[s][k].pc = "crc2"
    /\ tasks' = [tasks EXCEPT ![s][k].pc = "wait",
                              ![s][k].run = @ \cup {2}]
    /\ UNCHANGED <<adminVars, jobs, items, stub, jobIn, jobOut, mainPc, started, wgMain, stPc, stWg,
                   closed, genIdx, mx, hashes, res, sunk, panicked>>

\* Lines 70-72: wg.Wait() returns; hash := *hash1 + "~" + *hash2; the goroutine
\* then blocks in `out <- hash`.  A send on a closed channel panics.
SingleHashValueSwapped(t) == t.cell[2] \o <<Tilde>> \o t.cell[1]
SingleHashValue(t) == t.cell[1] \o <<Tilde>> \o t.cell[2]

SingleJoinNoWait(s, k) ==
    /\ ~panicked
    /\ IsTask(s, k)
    /\ jobs[s] = "SingleHash"
    /\ tasks[s][k].pc = "wait"
    /\ IF closed[jobOut[s]]
       THEN panicked' = TRUE /\ UNCHANGED tasks
       ELSE /\ tasks' = [tasks EXCEPT ![s][k].pc = "send",
                                      ![s][k].res = SingleHashValue(tasks[s][k])]
            /\ UNCHANGED panicked
    /\ UNCHANGED <<adminVars, jobs, items, stub, jobIn, jobOut, mainPc, started, wgMain, stPc, stWg,
                   closed, genIdx, mx, hashes, res, sunk>>

SingleJoin(s, k) ==
    /\ ~panicked
    /\ IsTask(s, k)
    /\ jobs[s] = "SingleHash"
    /\ tasks[s][k].pc = "wait"
    /\ tasks[s][k].wg = 0
    /\ IF closed[jobOut[s]]
       THEN panicked' = TRUE /\ UNCHANGED tasks
       ELSE /\ tasks' = [tasks EXCEPT ![s][k].pc = "send",
                                      ![s][k].res = SingleHashValue(tasks[s][k])]
            /\ UNCHANGED panicked
    /\ UNCHANGED <<adminVars, jobs, items, stub, jobIn, jobOut, mainPc, started, wgMain, stPc, stWg,
                   closed, genIdx, mx, hashes, res, sunk>>

----------------------------------------------------------------------------
\* asyncCrc32's goroutine, lines 77-80: *hash = DataSignerCrc32(data); wg.Done().
\* Nothing reads the cell before the Done, so the two are one step.

Crc32DoneUnlocked(s, k, i) ==
    /\ ~panicked
    /\ IsTask(s, k)
    /\ i \in tasks[s][k].run
    /\ mx = <<>>
    /\ tasks' = [tasks EXCEPT
                    ![s][k].run = @ \ {i},
                    ![s][k].wg = @ - 1,
                    ![s][k].cell[i] = DataSignerCrc32(CrcArg(jobs[s], tasks[s][k], i))]
    /\ UNCHANGED <<adminVars, jobs, items, stub, jobIn, jobOut, mainPc, started, wgMain, stPc, stWg,
                   closed, genIdx, mx, hashes, res, sunk, panicked>>

Crc32Done(s, k, i) ==
    /\ ~panicked
    /\ IsTask(s, k)
    /\ i \in tasks[s][k].run
    /\ tasks' = [tasks EXCEPT
                    ![s][k].run = @ \ {i},
                    ![s][k].wg = @ - 1,
                    ![s][k].cell[i] = DataSignerCrc32(CrcArg(jobs[s], tasks[s][k], i))]
    /\ UNCHANGED <<adminVars, jobs, items, stub, jobIn, jobOut, mainPc, started, wgMain, stPc, stWg,
                   closed, genIdx, mx, hashes, res, sunk, panicked>>

----------------------------------------------------------------------------
\* asyncMultiHash, one goroutine per item of MultiHash.

\* Lines 103-114: the type assertion, wg.Add(n), and the loop that starts the
\* n asyncCrc32 goroutines; cell i + 1 is hashes[i].
MultiStart(s, k) ==
    /\ ~panicked
    /\ IsTask(s, k)
    /\ jobs[s] = "MultiHash"
    /\ tasks[s][k].pc = "start"
    /\ IF tasks[s][k].data.t = "string"
       THEN /\ tasks' = [tasks EXCEPT ![s][k].pc = "wait",
                                      ![s][k].wg = n,
                                      ![s][k].cell = EmptyCells(n),
                                      ![s][k].run = 1..n]
            /\ UNCHANGED panicked
       ELSE panicked' = TRUE /\ UNCHANGED tasks
    /\ UNCHANGED <<adminVars, jobs, items, stub, jobIn, jobOut, mainPc, started, wgMain, stPc, stWg,
                   closed, genIdx, mx, hashes, res, sunk>>

\* Lines 116-120: wg.Wait() returns; the cells are written to res in index
\* order; the goroutine then blocks in `out <- res.String()`.
RECURSIVE ConcatDown(_, _)
ConcatDown(cells, i) ==
    IF i < 1 THEN <<>> ELSE cells[i] \o ConcatDown(cells, i - 1)

MultiHashValueReversed(t) == ConcatDown(t.cell, Len(t.cell))
MultiHashValue(t) == Concat(t.cell, 1)

MultiJoin(s, k) ==
    /\ ~panicked
    /\ IsTask(s, k)
    /\ jobs[s] = "MultiHash"
    /\ tasks[s][k].pc = "wait"
    /\ tasks[s][k].wg = 0
    /\ IF closed[jobOut[s]]
       THEN panicked' = TRUE /\ UNCHANGED tasks
       ELSE /\ tasks' = [tasks EXCEPT ![s][k].pc = "send",
                                      ![s][k].res = MultiHashValue(tasks[s][k])]
            /\ UNCHANGED panicked
    /\ UNCHANGED <<adminVars, jobs, items, stub, jobIn, jobOut, mainPc, started, wgMain, stPc, stWg,
                   closed, genIdx, mx, hashes, res, sunk>>

----------------------------------------------------------------------------
\* The specification.

Next ==
    \/ ExecuteStart
    \/ ExecuteWait
    \/ GenReturn
    \/ \E s \in Stages : JobClose(s)
    \/ \E s \in Stages : Recv(s)
    \/ \E s \in Stages : RangeEnd(s)
    \/ \E s \in Stages : StageWait(s)
    \/ \E s \in Stages : \E k \in 1..Len(tasks[s]) : SingleStart(s, k)
    \/ \E s \in Stages : \E k \in 1..Len(tasks[s]) : SignLock(s, k)
    \/ \E s \in Stages : \E k \in 1..Len(tasks[s]) : SignReturn(s, k)
    \/ \E s \in Stages : \E k \in 1..Len(tasks[s]) : SingleCrc2(s, k)
    \/ \E s \in Stages : \E k \in 1..Len(tasks[s]) : SingleJoin(s, k)
    \/ \E s \in Stages : \E k \in 1..Len(tasks[s]) : MultiStart(s, k)
    \/ \E s \in Stages : \E k \in 1..Len(tasks[s]) : MultiJoin(s, k)
    \/ \E s \in Stages : \E k \in 1..Len(tasks[s]) :
           \E i \in tasks[s][k].run : Crc32Done(s, k, i)

Spec == Init /\ [][Next]_vars

AnyJobsSpec == AnyJobsInit /\ [][Next]_vars

\* A provider of DataSignerMd5 that never returns for one of the items: the
\* call for -12 hangs.
Hangs(v) == v = IntVal(-12)

SignReturnUnlessHung(s, k) == ~Hangs(tasks[s][k].data) /\ SignReturn(s, k)

StuckNext ==
    \/ ExecuteStart
    \/ ExecuteWait
    \/ GenReturn
    \/ \E s \in Stages : JobClose(s)
    \/ \E s \in Stages : Recv(s)
    \/ \E s \in Stages : RangeEnd(s)
    \/ \E s \in Stages : StageWait(s)
    \/ \E s \in Stages : \E k \in 1..Len(tasks[s]) : SingleStart(s, k)
    \/ \E s \in Stages : \E k \in 1..Len(tasks[s]) : SignLock(s, k)
    \/ \E s \in Stages : \E k \in 1..Len(tasks[s]) : SignReturnUnlessHung(s, k)
    \/ \E s \in Stages : \E k \in 1..Len(tasks[s]) : SingleCrc2(s, k)
    \/ \E s \in Stages : \E k \in 1..Len(tasks[s]) : SingleJoin(s, k)
    \/ \E s \in Stages : \E k \in 1..Len(tasks[s]) : MultiStart(s, k)
    \/ \E s \in Stages : \E k \in 1..Len(tasks[s]) : MultiJoin(s, k)
    \/ \E s \in Stages : \E k \in 1..Len(tasks[s]) :
           \E i \in tasks[s][k].run : Crc32Done(s, k, i)

StuckSpec == Init /\ [][StuckNext]_vars

\* The Go scheduler runs every goroutine that can take a step.
FairSpec == Spec /\ WF_vars(Next)

----------------------------------------------------------------------------
\* hw7_microservice/service.go: the adminServer, its subscribers (the handlers
\* Logging and Statistics), the calls of log made by the middleware for each
\* request, and the call of stop made when the context is done.  The channels
\* of the subscriptions are unbuffered.  newSub, deleteSub and stop hold the
\* mutex over code that cannot block, so each is one step taken when the
\* mutex is free; log holds it across its sends.

\* The handler that holds subscription id, if it is still there.
HandlerOf(id) == {h \in Handlers : hId[h] = id}

\* Logging 219, Statistics 233: newSub (174-184).
NewSub(h) ==
    /\ ~asPanicked
    /\ hPc[h] = "idle"
    /\ asLock = 0
    /\ hId' = [hId EXCEPT ![h] = nextID]
    /\ subs' = subs \cup {nextID}
    /\ nextID' = nextID + 1
    /\ hPc' = [hPc EXCEPT ![h] = "recv"]
    /\ UNCHANGED <<signerVars, asLock, subClosed, hKind, hGot, hStat, lPc,
                   lTodo, lSubs, lockOrder, stopPc, asPanicked>>

\* log 194-195: Lock(), and the range over as.subs begins.
LogLock(l) ==
    /\ ~asPanicked
    /\ lPc[l] = "idle"
    /\ asLock = 0
    /\ asLock' = l
    /\ lPc' = [lPc EXCEPT ![l] = "sending"]
    /\ lTodo' = [lTodo EXCEPT ![l] = subs]
    /\ lSubs' = [lSubs EXCEPT ![l] = subs]
    /\ lockOrder' = Append(lockOrder, l)
    /\ UNCHANGED <<signerVars, subs, nextID, subClosed, hKind, hPc, hId, hGot,
                   hStat, stopPc, asPanicked>>

\* log 197-199: `sub <- e` for one of the subscriptions left, in the order the
\* map range happens to yield.  A send on a closed channel panics; otherwise
\* the send completes when the handler receives: Logging 221 goes on to
\* serv.Send, Statistics 241-243 counts the event.
LogSend(l, id) ==
    /\ ~asPanicked
    /\ lPc[l] = "sending"
    /\ id \in lTodo[l]
    /\ IF id \in subClosed
       THEN /\ asPanicked' = TRUE
            /\ UNCHANGED <<lTodo, hGot, hPc, hStat>>
       ELSE /\ \E h \in HandlerOf(id) :
                 /\ hPc[h] = "recv"
                 /\ hGot' = [hGot EXCEPT ![h] = Append(@, l)]
                 /\ IF hKind[h] = "Logging"
                    THEN hPc' = [hPc EXCEPT ![h] = "send"] /\ UNCHANGED hStat
                    ELSE hStat' = [hStat EXCEPT ![h] = @ + 1] /\ UNCHANGED hPc
            /\ lTodo' = [lTodo EXCEPT ![l] = @ \ {id}]
            /\ UNCHANGED asPanicked
    /\ UNCHANGED <<signerVars, asLock, subs, nextID, subClosed, hKind, hId,
                   lPc, lSubs, lockOrder, stopPc>>

\* log 195: the range is over and the deferred Unlock() runs.
LogReturn(l) ==
    /\ ~asPanicked
    /\ lPc[l] = "sending"
    /\ lTodo[l] = {}
    /\ asLock' = 0
    /\ lPc' = [lPc EXCEPT ![l] = "done"]
    /\ UNCHANGED <<signerVars, subs, nextID, subClosed, hKind, hPc, hId, hGot,
                   hStat, lTodo, lSubs, lockOrder, stopPc, asPanicked>>

\* stop 209-216: every channel in as.subs is closed; none is deleted.
Stop ==
    /\ ~asPanicked
    /\ stopPc = "idle"
    /\ asLock = 0
    /\ subClosed' = subClosed \cup subs
    /\ stopPc' = "done"
    /\ UNCHANGED <<signerVars, asLock, subs, nextID, hKind, hPc, hId, hGot,
                   hStat, lPc, lTodo, lSubs, lockOrder, asPanicked>>

\* Logging 222-225: serv.Send(&event) returns, with or without an error.
LoggingSend(h) ==
    /\ ~asPanicked
    /\ hKind[h] = "Logging"
    /\ hPc[h] = "send"
    /\ \E ok \in BOOLEAN :
          hPc' = [hPc EXCEPT ![h] = IF ok THEN "recv" ELSE "leaving"]
    /\ UNCHANGED <<signerVars, asLock, subs, nextID, subClosed, hKind, hId,
                   hGot, hStat, lPc, lTodo, lSubs, lockOrder, stopPc, asPanicked>>

\* Logging 221, 227: the range over a closed channel ends and the handler
\* returns nil.
LoggingEnd(h) ==
    /\ ~asPanicked
    /\ hKind[h] = "Logging"
    /\ hPc[h] = "recv"
    /\ hId[h] \in subClosed
    /\ hPc' = [hPc EXCEPT ![h] = "leaving"]
    /\ UNCHANGED <<signerVars, asLock, subs, nextID, subClosed, hKind, hId,
                   hGot, hStat, lPc, lTodo, lSubs, lockOrder, stopPc, asPanicked>>

\* Statistics 244-254: the ticker fires and serv.Send(&Stat{...}) returns:
\* without an error the maps are made anew, with one the handler returns.
StatTick(h) ==
    /\ ~asPanicked
    /\ hKind[h] = "Statistics"
    /\ hPc[h] = "recv"
    /\ \E ok \in BOOLEAN :
          IF ok THEN hStat' = [hStat EXCEPT ![h] = 0] /\ UNCHANGED hPc
          ELSE hPc' = [hPc EXCEPT ![h] = "leaving"] /\ UNCHANGED hStat
    /\ UNCHANGED <<signerVars, asLock, subs, nextID, subClosed, hKind, hId,
                   hGot, lPc, lTodo, lSubs, lockOrder, stopPc, asPanicked>>

\* Statistics 241-243 on a closed channel: `event := <-sub` yields the zero
\* Event at once, again and again, and it is counted.
StatRecvClosed(h) ==
    /\ ~asPanicked
    /\ hKind[h] = "Statistics"
    /\ hPc[h] = "recv"
    /\ hId[h] \in subClosed
    /\ hStat[h] < MaxStat
    /\ hStat' = [hStat EXCEPT ![h] = @ + 1]
    /\ UNCHANGED <<signerVars, asLock, subs, nextID, subClosed, hKind, hPc,
                   hId, hGot, lPc, lTodo, lSubs, lockOrder, stopPc, asPanicked>>

\* The deferred deleteSub(id) of Logging 220 and Statistics 234: 186-191.
DeleteSub(h) ==
    /\ ~asPanicked
    /\ hPc[h] = "leaving"
    /\ asLock = 0
    /\ subs' = subs \ {hId[h]}
    /\ hPc' = [hPc EXCEPT ![h] = "gone"]
    /\ UNCHANGED <<signerVars, asLock, nextID, subClosed, hKind, hId, hGot,
                   hStat, lPc, lTodo, lSubs, lockOrder, stopPc, asPanicked>>

AdminInit ==
    /\ jobs = NoJobs
    /\ items = <<>>
    /\ stub = "identity"
    /\ Called
    /\ hKind \in [Handlers -> HandlerKinds]
    /\ NewAdminServer

AdminNext ==
    \/ Stop
    \/ \E h \in Handlers : NewSub(h)
    \/ \E h \in Handlers : LoggingSend(h)
    \/ \E h \in Handlers : LoggingEnd(h)
    \/ \E h \in Handlers : StatTick(h)
    \/ \E h \in Handlers : StatRecvClosed(h)
    \/ \E h \in Handlers : DeleteSub(h)
    \/ \E l \in Loggers : LogLock(l)
    \/ \E l \in Loggers : \E id \in lTodo[l] : LogSend(l, id)
    \/ \E l \in Loggers : LogReturn(l)

AdminSpec == AdminInit /\ [][AdminNext]_vars

----------------------------------------------------------------------------
\* What the claims speak of.

StagesOf(kind) == {s \in Stages : jobs[s] = kind}

TasksOf(kind) == {<<s, k>> : s \in StagesOf(kind), k \in 1..MaxItems}

Task(id) == tasks[id[1]][id[2]]

Live(id) == id[2] <= Len(tasks[id[1]])

\* The calls of DataSignerMd5 in flight.
SlowInFlight == {id \in TasksOf("SingleHash") : Live(id) /\ Task(id).pc = "md5"}

AllInts == \A j \in 1..Len(items) : items[j].t = "int"

\* A per-item goroutine has built its result: it is sending it or has sent it.
Emitted(id) == Live(id) /\ Task(id).pc \in {"send", "done"}

\* CombineResults has built its string: it is sending it or has sent it.
Combined(c) == stPc[c] = "send" \/ (stPc[c] \in {"returned", "done"} /\ Len(hashes[c]) > 0)

FastHash(str) == DataSignerCrc32(str)
SlowHash(str) == DataSignerMd5(str)

\* The fingerprints of the specification, written out.
SingleHashOf(x) == FastHash(Itoa(x)) \o <<126>> \o FastHash(SlowHash(Itoa(x)))

MultiHashOf(str) ==
    FastHash(<<48>> \o str) \o FastHash(<<49>> \o str) \o FastHash(<<50>> \o str)
    \o FastHash(<<51>> \o str) \o FastHash(<<52>> \o str) \o FastHash(<<53>> \o str)

Fingerprint(v) == MultiHashOf(SingleHashOf(v.i))

StrLeq(a, b) == a = b \/ StrLess(a, b)

Ascending(ss) == \A j \in 1..Len(ss) - 1 : StrLeq(ss[j], ss[j + 1])

Orderings(count) ==
    {p \in [1..count -> 1..count] : \A a, b \in 1..count : p[a] = p[b] => a = b}

Permuted(ss, p) == [j \in 1..Len(ss) |-> ss[p[j]]]

RECURSIVE JoinWith(_)
JoinWith(ss) ==
    IF Len(ss) = 1 THEN ss[1] ELSE ss[1] \o <<95>> \o JoinWith(Tail(ss))

\* The number of "_"-separated entries of a string.
Separators(str) == Cardinality({j \in 1..Len(str) : str[j] = 95})

Entries(str) == Separators(str) + 1

\* The pipeline's answer for a batch fed in the order given.
Answer(batch) ==
    JoinWith(SortStrings([j \in 1..Len(batch) |-> Fingerprint(batch[j])]))

----------------------------------------------------------------------------
\* C1: at every instant at most one call of DataSignerMd5 is in flight,
\* whatever the batch and the interleaving of SingleHash's per-item goroutines.
C1_OneSlowHashInFlight == Cardinality(SlowInFlight) <= 1

\* One goroutine is inside DataSignerMd5 while another waits for the lock.
C1_Witness ==
    \E a, b \in TasksOf("SingleHash") :
        /\ Live(a) /\ Live(b)
        /\ Task(a).pc = "md5"
        /\ Task(b).pc = "lock"

\* C2: the string CombineResults builds for a non-empty batch of ints is the
\* same for every order in which the items are fed and every interleaving: it
\* is the answer for every permutation of the batch.
C2_OrderIndependent ==
    \A c \in StagesOf("CombineResults") :
        (Combined(c) /\ Len(items) > 0 /\ AllInts) =>
            \A p \in Orderings(Len(items)) : res[c] = Answer(Permuted(items, p))

\* Two different items, received by CombineResults in descending order of
\* their fingerprints, have been combined and received by the collecting job.
C2_Witness ==
    \E c \in StagesOf("CombineResults") :
        /\ Combined(c)
        /\ Len(hashes[c]) = 2
        /\ StrLess(hashes[c][2], hashes[c][1])
        /\ sunk = <<StrVal(res[c])>>

\* C3: on a run without panic every item fed comes out as exactly one entry of
\* the string CombineResults builds: the number of "_"-separated entries of
\* the string is the number of items fed, and a run of a non-empty batch that
\* has not panicked does not come to rest before the string is built.
C3_EveryItemOneEntry ==
    \A c \in StagesOf("CombineResults") :
        /\ Combined(c) => Entries(res[c]) = Len(items)
        /\ (Len(items) > 0 /\ ~panicked /\ ~ENABLED Next) => Combined(c)

\* CombineResults has built a string of two entries from a batch of two.
C3_Witness ==
    \E c \in StagesOf("CombineResults") :
        Combined(c) /\ Len(items) = 2 /\ Entries(res[c]) = 2

\* C4: ExecutePipeline(generator, SingleHash, MultiHash, CombineResults) returns
\* for every batch of ints: if nothing can take a step any more, it has returned.
C4_PipelineReturns ==
    (jobs = Standard /\ AllInts /\ ~ENABLED Next) => mainPc = "done"

\* C5: what asyncMultiHash sends for s is crc32("0"+s) + ... + crc32("5"+s), in
\* ascending index order, whatever the order in which the six goroutines end.
C5_MultiHashInIndexOrder ==
    \A id \in TasksOf("MultiHash") :
        Emitted(id) => Task(id).res = MultiHashOf(Task(id).data.s)

\* An asyncMultiHash is sending its result while, for another item, the
\* goroutine of index 5 has ended before the goroutine of index 0.
C5_Witness ==
    \E a, b \in TasksOf("MultiHash") :
        /\ Live(a) /\ Live(b)
        /\ Task(a).pc = "send" /\ Task(a).res # <<>>
        /\ Task(b).pc = "wait" /\ 1 \in Task(b).run /\ 6 \notin Task(b).run

\* C6: what asyncSingleHash sends for the int x is
\* crc32(Itoa(x)) + "~" + crc32(md5(Itoa(x))); with the identity stubs the item 0
\* gives "0~0".
C6_SingleHashValue ==
    \A id \in TasksOf("SingleHash") :
        Emitted(id) =>
            /\ Task(id).res = SingleHashOf(Task(id).data.i)
            /\ (stub = "identity" /\ Task(id).data.i = 0) =>
                    Task(id).res = <<48, 126, 48>>

\* With the identity stubs the item 0 has been hashed to "0~0".
C6_Witness ==
    \E id \in TasksOf("SingleHash") :
        /\ Emitted(id)
        /\ stub = "identity"
        /\ Task(id).data = IntVal(0)
        /\ Task(id).res = <<48, 126, 48>>

\* C7: having received k >= 1 strings, CombineResults emits exactly one item:
\* the k strings in ascending byte order with "_" between neighbours and none
\* at either end; for k = 1, the string received.
C7_SortedJoin ==
    \A c \in StagesOf("CombineResults") :
        /\ Combined(c) =>
              /\ \E p \in Orderings(Len(hashes[c])) :
                    /\ Ascending(Permuted(hashes[c], p))
                    /\ res[c] = JoinWith(Permuted(hashes[c], p))
              /\ Len(hashes[c]) = 1 => res[c] = hashes[c][1]
        /\ (c + 1 \in StagesOf("sink")) =>
              /\ Len(sunk) <= 1
              /\ (stPc[c] = "send" => sunk = <<>>)
              /\ (stPc[c] \in {"returned", "done"} /\ Len(hashes[c]) > 0) =>
                    sunk = <<StrVal(res[c])>>

\* Two strings received in descending order have been emitted as one item.
C7_Witness ==
    \E c \in StagesOf("CombineResults") :
        /\ stPc[c] = "done"
        /\ Len(hashes[c]) = 2
        /\ StrLess(hashes[c][2], hashes[c][1])
        /\ sunk = <<StrVal(hashes[c][2] \o <<95>> \o hashes[c][1])>>

\* C8: when its input is closed without an item received, CombineResults sends
\* nothing, not even an empty string, and its output is closed with no item.
C8_NothingFromNothing ==
    \A c \in StagesOf("CombineResults") :
        Len(hashes[c]) = 0 =>
            /\ stPc[c] # "send"
            /\ res[c] = <<>>
            /\ (c + 1 \in StagesOf("sink")) => sunk = <<>>
            /\ stPc[c] = "done" => closed[jobOut[c]]
            /\ (c + 1 \in StagesOf("sink") /\ stPc[c + 1] \in {"returned", "done"}) =>
                    closed[jobOut[c]]

\* The empty batch: CombineResults is done, its output closed, the collecting
\* job has returned with nothing.
C8_Witness ==
    \E c \in StagesOf("CombineResults") :
        /\ items = <<>>
        /\ stPc[c] = "done" /\ closed[jobOut[c]]
        /\ c + 1 \in StagesOf("sink") /\ stPc[c + 1] = "done" /\ sunk = <<>>

\* C9: CombineResults is a full barrier: when it sends, its input is closed and
\* everything sent on its input has been received.
C9_FullBarrier ==
    \A c \in StagesOf("CombineResults") :
        (stPc[c] = "send" \/ (c + 1 \in StagesOf("sink") /\ sunk # <<>>)) =>
            /\ c > 1
            /\ jobIn[c] # 0
            /\ closed[jobIn[c]]
            /\ Offers(jobIn[c]) = {}
            /\ \A k \in 1..Len(tasks[c - 1]) : tasks[c - 1][k].pc = "done"
            /\ Len(hashes[c]) = Len(tasks[c - 1])

\* CombineResults is sending the string built from two items.
C9_Witness ==
    \E c \in StagesOf("CombineResults") :
        stPc[c] = "send" /\ Len(hashes[c]) = 2 /\ closed[jobIn[c]]

\* C10: ExecutePipeline returns only when every job has returned and its output
\* is closed; no per-item goroutine and no asyncCrc32 goroutine is running then.
C10_ReturnsAfterAll ==
    mainPc = "done" =>
        \A s \in Stages :
            /\ stPc[s] = "done"
            /\ closed[jobOut[s]]
            /\ stWg[s] = 0
            /\ \A k \in 1..Len(tasks[s]) :
                  tasks[s][k].pc = "done" /\ tasks[s][k].run = {}

\* ExecutePipeline has returned from a run on two items.
C10_Witness ==
    /\ mainPc = "done"
    /\ Len(items) = 2
    /\ \A s \in StagesOf("SingleHash") \cup StagesOf("MultiHash") : Len(tasks[s]) = 2

\* C11: every item the last job emits on its output can be received by the
\* caller of ExecutePipeline once ExecutePipeline has returned, and the output
\* is closed then: no run comes to rest with the last job still sending an item
\* and ExecutePipeline not returned.
C11_FinalOutputDrainable ==
    /\ mainPc = "done" => closed[jobOut[Len(jobs)]]
    /\ (Sends(Len(jobs)) # {} /\ ~ENABLED Next) => mainPc = "done"

\* C12: ExecutePipeline() with no job starts nothing, does not fail, and
\* returns.
C12_NoJobsReturns ==
    Len(jobs) = 0 =>
        /\ ~panicked
        /\ started = 0
        /\ ~ENABLED Next => mainPc = "done"

\* The jobs started with channel c as out, and those started with it as in.
Producers(c) == {s \in Stages : jobOut[s] = c}
Consumers(c) == {s \in Stages : jobIn[s] = c}

\* C13: once ExecutePipeline is past its loop all jobs are started; the channel
\* passed to job i as out is the one passed to job i + 1 as in, it is a channel
\* of its own (no other job has it as out or as in), and the first job is
\* started with the nil channel.  What MultiHash receives, SingleHash has sent.
C13_Wiring ==
    mainPc # "start" =>
        /\ started = Len(jobs)
        /\ \A s \in Stages : stPc[s] # "idle"
        /\ jobIn[1] = 0
        /\ \A i \in 1..(Len(jobs) - 1) :
              /\ jobOut[i] # 0
              /\ jobOut[i] = jobIn[i + 1]
              /\ Producers(jobOut[i]) = {i}
              /\ Consumers(jobOut[i]) = {i + 1}
        /\ \A s \in StagesOf("MultiHash") : \A k \in 1..Len(tasks[s]) :
              \E j \in 1..Len(tasks[s - 1]) :
                  /\ jobs[s - 1] = "SingleHash"
                  /\ tasks[s - 1][j].pc = "done"
                  /\ tasks[s][k].data = StrVal(tasks[s - 1][j].res)

\* ExecutePipeline waits, and an item has crossed every channel between the
\* five jobs.
C13_Witness ==
    /\ mainPc = "wait"
    /\ Len(jobs) = 5
    /\ sunk # <<>>
    /\ \A i \in 1..4 : jobOut[i] = jobIn[i + 1] /\ jobOut[i] = i

\* What job s has received on its input, in the order of receipt.
Received(s) ==
    IF jobs[s] \in PerItem THEN [k \in 1..Len(tasks[s]) |-> tasks[s][k].data]
    ELSE IF jobs[s] = "CombineResults"
    THEN [k \in 1..Len(hashes[s]) |-> StrVal(hashes[s][k])]
    ELSE sunk

\* The per-item goroutines of job s whose send has completed.
SentBy(s) == {k \in 1..Len(tasks[s]) : tasks[s][k].pc = "done"}

\* C14: SingleHash and MultiHash are one to one.  At every instant the next
\* job has received one value per completed send, and each per-item goroutine
\* sends at most the one result of its item; once the job function has
\* returned, every item received has been sent on: as many values went out as
\* came in, duplicates included, and the values that went out are the results
\* of the items, each taken once.
C14_OneToOne ==
    \A s \in StagesOf("SingleHash") \cup StagesOf("MultiHash") :
        /\ Len(Received(s + 1)) = Cardinality(SentBy(s))
        /\ stPc[s] \in {"returned", "done"} =>
              /\ SentBy(s) = 1..Len(tasks[s])
              /\ Len(Received(s + 1)) = Len(Received(s))
              /\ \E p \in Orderings(Len(tasks[s])) :
                    \A k \in 1..Len(tasks[s]) :
                        Received(s + 1)[k] = StrVal(tasks[s][p[k]].res)

\* SingleHash and MultiHash have returned from a batch of twice the same item:
\* two values came in and two went out of each.
C14_Witness ==
    /\ Len(items) = 2 /\ items[1] = items[2]
    /\ \A s \in StagesOf("SingleHash") \cup StagesOf("MultiHash") :
          stPc[s] = "done" /\ Len(tasks[s]) = 2 /\ Len(Received(s + 1)) = 2

\* C15: syncMd5 is held by a goroutine exactly while it is inside its call of
\* DataSignerMd5: the holder is an asyncSingleHash at that call; it has not
\* started the crc32 of the md5 value, is not in wg.Wait() nor in its send, and
\* whoever is past the call (or has not reached it) does not hold the lock,
\* so that the lock is never kept from one item to the next.
C15_GateOnlyAroundSlowHash ==
    /\ mx # <<>> =>
          /\ mx \in TasksOf("SingleHash") /\ Live(mx)
          /\ Task(mx).pc = "md5"
          /\ 2 \notin Task(mx).run /\ Task(mx).cell[2] = <<>>
    /\ \A id \in TasksOf("SingleHash") :
          Live(id) =>
              /\ Task(id).pc = "md5" => mx = id
              /\ Task(id).pc \in {"start", "lock", "crc2", "wait", "send", "done"} =>
                    mx # id

\* One goroutine has returned from sign and not yet gone on, and another
\* already holds the lock.
C15_Witness ==
    \E a, b \in TasksOf("SingleHash") :
        /\ Live(a) /\ Live(b)
        /\ Task(a).pc = "crc2"
        /\ Task(b).pc = "md5" /\ mx = b

\* The calls of DataSignerCrc32 in flight.
FastInFlight ==
    {c \in (TasksOf("SingleHash") \cup TasksOf("MultiHash")) \X (1..n) :
        Live(c[1]) /\ c[2] \in Task(c[1]).run}

\* C16: a call of DataSignerCrc32 never needs syncMd5: whoever holds the lock,
\* every call in flight can return.
C16_FastHashNeedsNoGate ==
    ~panicked =>
        \A c \in FastInFlight : ENABLED Crc32Done(c[1][1], c[1][2], c[2])

\* A batch of two: one call of DataSignerMd5 is in flight, and with it two
\* calls of DataSignerCrc32, one for each item.
C16_Witness ==
    /\ Len(items) = 2
    /\ Cardinality(SlowInFlight) = 1
    /\ Cardinality(FastInFlight) > 1
    /\ \E a, b \in TasksOf("SingleHash") :
          /\ a # b /\ Live(a) /\ Live(b)
          /\ mx = a
          /\ 1 \in Task(a).run /\ 1 \in Task(b).run

\* A value of a dynamic type the type assertion of job s refuses.
Misfit(s, v) ==
    \/ jobs[s] = "SingleHash" /\ v.t # "int"
    \/ jobs[s] \in {"MultiHash", "CombineResults"} /\ v.t # "string"

\* Such a value has arrived.  SingleHash and MultiHash send strings, so it can
\* only be an item of the batch arriving at the job next to the generator.
MisfitArrived ==
    /\ Len(jobs) >= 2
    /\ \E j \in 1..(genIdx - 1) : Misfit(2, items[j])

\* C17: in a run in which a value has arrived that the job cannot convert,
\* the goroutine of that value never gets to build or send a result,
\* CombineResults has not appended it, no CombineResults of the run builds a
\* string, nothing comes out of the pipeline, and ExecutePipeline never
\* returns normally.
C17_MisfitAborts ==
    MisfitArrived =>
        /\ \A k \in 1..Len(tasks[2]) :
              Misfit(2, tasks[2][k].data) =>
                  tasks[2][k].pc = "start" /\ tasks[2][k].res = <<>>
        /\ jobs[2] = "CombineResults" =>
              \A j \in 1..Len(Received(2)) : ~Misfit(2, Received(2)[j])
        /\ \A c \in StagesOf("CombineResults") : ~Combined(c) /\ res[c] = <<>>
        /\ sunk = <<>>
        /\ mainPc # "done"

\* The run has panicked on a string item in asyncSingleHash, after the other
\* item of the batch had gone all the way to CombineResults.
C17_Witness ==
    /\ panicked
    /\ MisfitArrived
    /\ jobs[2] = "SingleHash"
    /\ \E c \in StagesOf("CombineResults") : Len(hashes[c]) = 1

\* C18: a failed type assertion ends the run: once the process has panicked no
\* goroutine goes on, ExecutePipeline in its wg.Wait() included, and a run in
\* which a value the job cannot convert has arrived does not come to rest
\* otherwise than panicked.
C18_PanicEndsRun ==
    /\ panicked => ~ENABLED Next
    /\ (MisfitArrived /\ ~ENABLED Next) => panicked

\* CombineResults, next to the generator, has received an int: the process
\* has panicked while ExecutePipeline was in wg.Wait().
C18_Witness ==
    /\ panicked
    /\ MisfitArrived
    /\ jobs[2] = "CombineResults"
    /\ mainPc = "wait"

\* The number of asyncCrc32 calls one item takes in a job of the given kind.
SubTasks(kind) == IF kind = "SingleHash" THEN 2 ELSE n

\* C19: a per-item goroutine builds and sends its result only when all its
\* asyncCrc32 goroutines (2 in SingleHash, 6 in MultiHash) have called Done:
\* none is running then, every cell holds the crc32 written into it, and the
\* result sent is made of those written cells.
C19_JoinBeforeRead ==
    \A id \in TasksOf("SingleHash") \cup TasksOf("MultiHash") :
        Emitted(id) =>
            LET kind == jobs[id[1]] IN
            /\ Task(id).run = {}
            /\ Task(id).wg = 0
            /\ Len(Task(id).cell) = SubTasks(kind)
            /\ \A i \in 1..SubTasks(kind) :
                  /\ Task(id).cell[i] # <<>>
                  /\ Task(id).cell[i] = DataSignerCrc32(CrcArg(kind, Task(id), i))
            /\ Task(id).res =
                  IF kind = "SingleHash" THEN SingleHashValue(Task(id))
                  ELSE MultiHashValue(Task(id))

\* An asyncSingleHash is sending the result of its two cells while an
\* asyncMultiHash is sending the result of its six.
C19_Witness ==
    \E a \in TasksOf("SingleHash"), b \in TasksOf("MultiHash") :
        /\ Live(a) /\ Live(b)
        /\ Task(a).pc = "send" /\ Len(Task(a).cell) = 2
        /\ Task(b).pc = "send" /\ Len(Task(b).cell) = 6

\* C20: the output of a job is closed by job.do, once, after the job function
\* has returned: a closed channel is the out of one job only, that job is
\* through with job.do, none of its goroutines is before or in its send, and
\* no run of a batch of ints panics on a send on a closed channel or on a
\* second close.
C20_ClosedOnceAfterReturn ==
    /\ \A s \in Stages :
          /\ (jobOut[s] # 0 /\ closed[jobOut[s]]) =>
                /\ Producers(jobOut[s]) = {s}
                /\ stPc[s] = "done"
                /\ Sends(s) = {}
                /\ \A k \in 1..Len(tasks[s]) : tasks[s][k].pc = "done"
          /\ stPc[s] = "done" => closed[jobOut[s]]
    /\ AllInts => ~panicked

\* The output of MultiHash is closed after its two goroutines have sent, and
\* CombineResults has not yet seen the end of its input.
C20_Witness ==
    \E s \in StagesOf("MultiHash") :
        /\ jobOut[s] # 0
        /\ closed[jobOut[s]]
        /\ Len(tasks[s]) = 2
        /\ stPc[s + 1] = "run"

\* The per-item goroutines of job s that have not finished.
Unfinished(s) == {k \in 1..Len(tasks[s]) : tasks[s][k].pc # "done"}

\* C21: SingleHash and MultiHash take the next value from their input
\* whatever their earlier goroutines are doing and whoever holds syncMd5:
\* while the job ranges over its input, a value offered on it can be received.
C21_ReceivesWithoutWaiting ==
    \A s \in StagesOf("SingleHash") \cup StagesOf("MultiHash") :
        (~panicked /\ stPc[s] = "run" /\ jobIn[s] # 0 /\ Offers(jobIn[s]) # {}) =>
            ENABLED Recv(s)

\* A batch of two: the two goroutines of SingleHash are unfinished at once,
\* one of them inside DataSignerMd5, and at another moment so are the two of
\* MultiHash.
C21_Witness ==
    /\ Len(items) = 2
    /\ \E s \in StagesOf("SingleHash") \cup StagesOf("MultiHash") :
          /\ Cardinality(Unfinished(s)) = 2
          /\ \A k \in 1..2 : tasks[s][k].pc \in {"lock", "md5", "wait"}

\* C22: nothing holds a result of SingleHash back until SingleHash is through:
\* a result an asyncSingleHash is sending is on offer to MultiHash, which can
\* receive it, also while SingleHash still ranges over its input or has other
\* goroutines unfinished.
C22_NoBarrier ==
    \A s \in StagesOf("SingleHash") : \A k \in 1..Len(tasks[s]) :
        (~panicked /\ tasks[s][k].pc = "send") =>
            /\ \E o \in Offers(jobOut[s]) : o.r = s /\ o.k = k
            /\ \A c \in Consumers(jobOut[s]) :
                  jobs[c] = "MultiHash" => ENABLED Recv(c)

\* MultiHash has hashed and is sending the first item while the generator has
\* not yet handed the second one to SingleHash.
C22_Witness ==
    \E s \in StagesOf("SingleHash") :
        /\ Len(items) = 2 /\ genIdx = 2
        /\ stPc[s] = "run" /\ Len(tasks[s]) = 1
        /\ jobs[s + 1] = "MultiHash"
        /\ Len(tasks[s + 1]) = 1 /\ tasks[s + 1][1].pc = "send"

\* C23: within one item of SingleHash the goroutine computing crc32(data) is
\* started before the lock is asked for, and it can end while asyncSingleHash
\* waits for the lock or is inside DataSignerMd5.
C23_FirstCrcBesideMd5 ==
    \A id \in TasksOf("SingleHash") :
        (Live(id) /\ Task(id).pc \in {"lock", "md5"}) =>
            /\ 1 \in Task(id).run \/ Task(id).cell[1] = FastHash(Itoa(Task(id).data.i))
            /\ (~panicked /\ 1 \in Task(id).run) => ENABLED Crc32Done(id[1], id[2], 1)

\* The first crc32 of an item has ended while its asyncSingleHash still waits
\* for the lock, and that of another item while it is inside DataSignerMd5.
C23_Witness ==
    \E a, b \in TasksOf("SingleHash") :
        /\ Live(a) /\ Live(b)
        /\ Task(a).pc = "lock" /\ Task(a).cell[1] # <<>>
        /\ Task(b).pc = "md5" /\ Task(b).cell[1] # <<>>

\* C24: a send on a job's output never waits for a consumer: whenever a
\* goroutine is sending, a job ranging over that channel can take the value.
C24_SendNeverBlocks ==
    \A s \in Stages :
        (~panicked /\ Sends(s) # {}) =>
            \E c \in Consumers(jobOut[s]) : ENABLED Recv(c)

\* C25: a first job that ranges over its input until it is closed receives
\* the initial items and ends: with SingleHash first, the run does not come to
\* rest before SingleHash has received every item and ExecutePipeline has
\* returned.
C25_FirstJobFed ==
    (Len(jobs) > 0 /\ jobs[1] = "SingleHash" /\ ~ENABLED Next) =>
        /\ Len(tasks[1]) = Len(items)
        /\ stPc[1] = "done"
        /\ mainPc = "done"

\* The asyncSingleHash goroutines inside a call of DataSignerMd5 that hangs.
StuckHolders ==
    {id \in TasksOf("SingleHash") :
        Live(id) /\ Task(id).pc = "md5" /\ Hangs(Task(id).data)}

\* The asyncSingleHash goroutines that have not yet got the lock.
Waiting ==
    {id \in TasksOf("SingleHash") : Live(id) /\ Task(id).pc \in {"start", "lock"}}

\* With a goroutine inside a call that hangs: the lock stays with it, the
\* set of DataSignerMd5 calls in flight does not change, and the goroutines
\* that have not got the lock stay without it.
StuckStep ==
    StuckHolders # {} =>
        /\ mx' = mx
        /\ SlowInFlight' = SlowInFlight
        /\ \A id \in Waiting : tasks'[id[1]][id[2]].pc \in {"start", "lock"}

\* C26: there is no way out of a DataSignerMd5 call that never returns: the
\* goroutine inside it keeps syncMd5 for ever, no other call of DataSignerMd5
\* starts, the items that have not got the lock never send a result, the item
\* of the hanging call never gets past it, SingleHash does not return and
\* ExecutePipeline does not return.
C26_StuckForEver ==
    /\ [](\A id \in StuckHolders : mx = id)
    /\ [](\A id \in TasksOf("SingleHash") :
            (Live(id) /\ Hangs(Task(id).data)) =>
                /\ Task(id).pc \in {"start", "lock", "md5"}
                /\ stPc[id[1]] \in {"run", "wait"}
                /\ mainPc # "done")
    /\ [][StuckStep]_vars

\* The call for -12 hangs with the lock held; the other item waits for the
\* lock, and nothing can take a step any more.
C26_Witness ==
    /\ StuckHolders # {}
    /\ \E id \in Waiting : Task(id).pc = "lock"
    /\ mainPc = "wait"
    /\ ~panicked
    /\ ~ENABLED StuckNext

\* C27: when every call of DataSignerMd5 returns, every asyncSingleHash that
\* asks for syncMd5 gets it: the holder can always return and unlock, a free
\* lock can be taken by whoever waits for it, and no run that has not panicked
\* comes to rest with a goroutine still waiting for the lock or holding it
\* (no step is ever undone, so every run that goes on comes to rest).  Once
\* SingleHash has returned the lock is free and every item has had it.
C27_GateLiveness ==
    /\ ~panicked =>
          /\ \A id \in SlowInFlight : ENABLED SignReturn(id[1], id[2])
          /\ \A id \in Waiting :
                (Task(id).pc = "lock" /\ mx = <<>>) => ENABLED SignLock(id[1], id[2])
    /\ (~panicked /\ ~ENABLED Next) => (Waiting = {} /\ mx = <<>>)
    /\ \A s \in StagesOf("SingleHash") :
          stPc[s] \in {"returned", "done"} =>
              /\ mx = <<>>
              /\ \A k \in 1..Len(tasks[s]) : tasks[s][k].md5 # <<>>

\* SingleHash has returned from a batch of two whose goroutines had to take
\* the lock one after the other, and the lock is free.
C27_Witness ==
    \E s \in StagesOf("SingleHash") :
        /\ stPc[s] = "done"
        /\ Len(tasks[s]) = 2
        /\ \A k \in 1..2 : tasks[s][k].md5 # <<>>
        /\ mx = <<>>

\* C28: log never sends on a channel stop has closed: no call of log has a
\* closed channel among those it has yet to send to, and the server never
\* panics.
C28_NoSendOnClosed ==
    /\ \A l \in Loggers : lPc[l] = "sending" => lTodo[l] \cap subClosed = {}
    /\ ~asPanicked

\* C29: log and deleteSub do not wait for each other: no call of log is
\* sending, with the mutex held, to a handler that has stopped receiving and
\* waits for the mutex in deleteSub.
C29_LogAndDeleteSubGoOn ==
    \A l \in Loggers : \A h \in Handlers :
        ~(/\ ~asPanicked
          /\ lPc[l] = "sending"
          /\ hId[h] \in lTodo[l]
          /\ hPc[h] = "leaving")

\* The number of times event e occurs in the sequence got.
Times(e, got) == Cardinality({j \in 1..Len(got) : got[j] = e})

\* The places of the calls of log in lockOrder.
Place(l) == CHOOSE j \in 1..Len(lockOrder) : lockOrder[j] = l

\* What holds of the deliveries whether or not they all come about: no event
\* twice, none to a handler not subscribed when log got the lock, each handler
\* in the order of the locks, all delivered once log has returned, and ids
\* handed out once.
DeliveredInOrder ==
    /\ \A h \in Handlers : \A l \in Loggers :
          /\ Times(l, hGot[h]) <= 1
          /\ Times(l, hGot[h]) = 1 => hId[h] \in lSubs[l]
          /\ (lPc[l] = "done" /\ hId[h] \in lSubs[l]) => Times(l, hGot[h]) = 1
    /\ \A h \in Handlers : \A a, b \in 1..Len(hGot[h]) :
          a < b => Place(hGot[h][a]) < Place(hGot[h][b])
    /\ \A g, h \in Handlers : (hId[g] = hId[h] /\ hId[h] # -1) => g = h
    /\ \A h \in Handlers : hId[h] < nextID

\* C30: every event passed to log reaches, once, every handler subscribed
\* when log got the lock, in the order of the locks, and ids are not reused:
\* besides the above, a call of log that holds the lock never has left a
\* subscription it cannot deliver to, one whose channel is closed or whose
\* handler has stopped receiving.
C30_EveryEventDelivered ==
    /\ DeliveredInOrder
    /\ ~asPanicked =>
          \A l \in Loggers : \A id \in lTodo[l] :
              /\ id \notin subClosed
              /\ \E h \in HandlerOf(id) : hPc[h] \in {"recv", "send"}

====
